---- MODULE Spec2Model ----
(***************************************************************************)
(* Model of backend/main.py: a FastAPI backend with three protected routes *)
(* (/start-conversation, /history/{id}, /chat) in front of three external  *)
(* collaborators: the identity service (supabase.auth), the row store      *)
(* (supabase.table) and the generative model (genai).  The collaborators   *)
(* are the environment: each call's outcome (a response shape, or an       *)
(* exception) is chosen nondeterministically; the handlers are translated  *)
(* from the source.  Texts are TLA+ strings, handled character by          *)
(* character.                                                              *)
(***************************************************************************)
EXTENDS Naturals, Sequences, FiniteSets, TLC

VARIABLES
    conversations,  \* store table "conversations": rows in insertion order
    chat_messages,  \* store table "chat_messages": rows in created_at order
    req,            \* the request being answered (route, identity, arguments)
    resp,           \* the HTTP response of that request
    calls,          \* the collaborator calls that request made, in order
    parts,          \* chat's local list `parts` (one entry per prompt line)
    prompt,         \* chat's local `prompt`, the text handed to the model
    fetched         \* chat's local `history`, the rows the store returned

vars == <<conversations, chat_messages, req, resp, calls, parts, prompt, fetched>>

store == <<conversations, chat_messages>>

-----------------------------------------------------------------------------
(* Bounds of the model.                                                    *)

MaxConvs == 2        \* conversations the store accepts
MaxTurns == 2        \* chat turns the store accepts (two rows each)
MaxLongTurns == 11   \* chat turns the store accepts in the long conversation
MaxHist == 10        \* history records handed to the prompt assembler

(* Program constants.                                                      *)

HistoryLimit == 20   \* .limit(20)
PromptWindow == 8    \* history[-8:]

-----------------------------------------------------------------------------
(* Python values.                                                          *)

\* Optional[str]: None, or a string.
None == [some |-> FALSE, val |-> ""]
Some(s) == [some |-> TRUE, val |-> s]

\* Python truthiness of an Optional[str]: None and "" are falsy.
Truthy(o) == o.some /\ o.val # ""

Min(a, b) == IF a < b THEN a ELSE b

Lowers == "abcdefghijklmnopqrstuvwxyz"
Uppers == "ABCDEFGHIJKLMNOPQRSTUVWXYZ"

Char(s, i) == SubSeq(s, i, i)

\* str.lower() and str.upper(), one character at a time: the letter at the
\* same place of the other alphabet, any other character unchanged.
LowerTable == [i \in 1..Len(Uppers) |-> Char(Lowers, i)]
UpperTable == [i \in 1..Len(Lowers) |-> Char(Uppers, i)]
UpperSet == {Char(Uppers, i) : i \in 1..Len(Uppers)}
LowerSet == {Char(Lowers, i) : i \in 1..Len(Lowers)}

LowerChar(c) ==
    IF c \in UpperSet
    THEN LowerTable[CHOOSE i \in 1..Len(Uppers) : Char(Uppers, i) = c]
    ELSE c

UpperChar(c) ==
    IF c \in LowerSet
    THEN UpperTable[CHOOSE i \in 1..Len(Lowers) : Char(Lowers, i) = c]
    ELSE c

RECURSIVE Lower(_)
Lower(s) == IF s = "" THEN "" ELSE LowerChar(Head(s)) \o Lower(Tail(s))

RECURSIVE Upper(_)
Upper(s) == IF s = "" THEN "" ELSE UpperChar(Head(s)) \o Upper(Tail(s))

\* str.startswith(prefix)
StartsWith(s, prefix) ==
    Len(s) >= Len(prefix) /\ SubSeq(s, 1, Len(prefix)) = prefix

\* s.split(" ", 1)[1]: what follows the first space of s (s holds one).
AfterFirstSpace(s) ==
    LET i == CHOOSE k \in 1..Len(s) :
                 Char(s, k) = " " /\ \A j \in 1..(k - 1) : Char(s, j) # " "
    IN SubSeq(s, i + 1, Len(s))

IsSpace(c) == c \in {" ", "\t", "\n"}

\* str.strip(): leading and trailing whitespace removed.
RECURSIVE LStrip(_)
LStrip(s) == IF s # "" /\ IsSpace(Head(s)) THEN LStrip(Tail(s)) ELSE s

RECURSIVE RStrip(_)
RStrip(s) ==
    IF s # "" /\ IsSpace(Char(s, Len(s)))
    THEN RStrip(SubSeq(s, 1, Len(s) - 1))
    ELSE s

Strip(s) == RStrip(LStrip(s))

\* sep.join(list)
RECURSIVE Join(_, _)
Join(list, sep) ==
    IF list = <<>> THEN ""
    ELSE IF Len(list) = 1 THEN list[1]
    ELSE list[1] \o sep \o Join(Tail(list), sep)

\* list[-n:]
LastN(list, n) ==
    IF Len(list) <= n THEN list ELSE SubSeq(list, Len(list) - n + 1, Len(list))

\* list[:n], what the store's .limit(n) keeps of an ordered result
FirstN(list, n) ==
    IF Len(list) <= n THEN list ELSE SubSeq(list, 1, n)

-----------------------------------------------------------------------------
(* The identity collaborator, supabase.auth.get_user(token).               *)

\* The user a token was issued to; "" for a token the service does not know.
TokenUser(token) ==
    IF token = "t1" THEN "u1" ELSE IF token = "t2" THEN "u2" ELSE ""

Users == {"u1", "u2"}

\* A user representation: absent, or a dict / an object with an optional id.
NoUser == [some |-> FALSE, isdict |-> FALSE, id |-> None]
UserRep(isdict, id) == [some |-> TRUE, isdict |-> isdict, id |-> id]

\* The shapes a get_user response comes in.  A token the service does not
\* know never yields a user: the call raises or returns a response without one.
RejectShapes == {"raise", "obj_none", "dict_empty"}
AcceptShapes == {"obj", "obj_dict", "dict_data", "dict_user"}
NoIdShapes == {"obj_noid", "dict_noid"}
AuthShapes == RejectShapes \cup AcceptShapes \cup NoIdShapes

IdentityShapes(token) ==
    IF TokenUser(token) = "" THEN RejectShapes ELSE AuthShapes

AuthResponse(raises, isdict, user, data_user) ==
    [raises |-> raises, isdict |-> isdict, user |-> user, data_user |-> data_user]

supabase_auth_get_user(token, shape) ==
    LET uid == Some(TokenUser(token)) IN
    CASE shape = "raise"      -> AuthResponse(TRUE, FALSE, NoUser, NoUser)
      [] shape = "obj"        -> AuthResponse(FALSE, FALSE, UserRep(FALSE, uid), NoUser)
      [] shape = "obj_dict"   -> AuthResponse(FALSE, FALSE, UserRep(TRUE, uid), NoUser)
      [] shape = "dict_data"  -> AuthResponse(FALSE, TRUE, NoUser, UserRep(TRUE, uid))
      [] shape = "dict_user"  -> AuthResponse(FALSE, TRUE, UserRep(TRUE, uid), NoUser)
      [] shape = "obj_none"   -> AuthResponse(FALSE, FALSE, NoUser, NoUser)
      [] shape = "dict_empty" -> AuthResponse(FALSE, TRUE, NoUser, NoUser)
      [] shape = "obj_noid"   -> AuthResponse(FALSE, FALSE, UserRep(FALSE, None), NoUser)
      [] shape = "dict_noid"  -> AuthResponse(FALSE, TRUE, UserRep(TRUE, None), NoUser)

-----------------------------------------------------------------------------
(* Collaborator calls, as the request's log records them.                  *)

Call(target, op, outcome) == [target |-> target, op |-> op, outcome |-> outcome]

\* `if not authorization or not authorization.lower().startswith("bearer ")`
HasBearer(authorization) ==
    /\ Truthy(authorization)
    /\ StartsWith(Lower(authorization.val), "bearer ")

AuthResult(status, detail, user_id, made) ==
    [status |-> status, detail |-> detail, user_id |-> user_id, calls |-> made]

\* get_user_id without its `if not user_id` check.
get_user_id_NoIdCheck(authorization, shape) ==
    IF ~HasBearer(authorization)
    THEN AuthResult(401, "Missing bearer token", "", <<>>)
    ELSE
      LET r == supabase_auth_get_user(AfterFirstSpace(authorization.val), shape)
          made == <<Call("auth", "get_user", shape)>>
          user_obj ==
              IF ~r.isdict /\ r.user.some THEN r.user
              ELSE IF r.isdict
                   THEN IF r.data_user.some THEN r.data_user ELSE r.user
                   ELSE NoUser
      IN  IF r.raises \/ ~user_obj.some
          THEN AuthResult(401, "Invalid token", "", made)
          ELSE AuthResult(200, "", user_obj.id.val, made)

\* The dependency get_user_id: the user id of the bearer token, or HTTP 401.
\* `shape` is the shape the identity collaborator answers in, when it is asked.
get_user_id(authorization, shape) ==
    IF ~HasBearer(authorization)
    THEN AuthResult(401, "Missing bearer token", "", <<>>)
    ELSE
      LET token == AfterFirstSpace(authorization.val)
          r == supabase_auth_get_user(token, shape)
          made == <<Call("auth", "get_user", shape)>>
          user_obj ==
              IF ~r.isdict /\ r.user.some THEN r.user
              ELSE IF r.isdict
                   THEN IF r.data_user.some THEN r.data_user ELSE r.user
                   ELSE NoUser
          user_id == user_obj.id
      IN  IF r.raises THEN AuthResult(401, "Invalid token", "", made)
          ELSE IF ~user_obj.some THEN AuthResult(401, "Invalid token", "", made)
          ELSE IF ~Truthy(user_id) THEN AuthResult(401, "Invalid token", "", made)
          ELSE AuthResult(200, "", user_id.val, made)

-----------------------------------------------------------------------------
(* The store collaborator, supabase.table(...).                            *)

\* The id the store assigns to the n-th conversation row.
IdOf(n) == "c" \o Char("123456789", n)

ConvRow(id, user_id, title) == [id |-> id, user_id |-> user_id, title |-> title]

MsgRow(conversation_id, user_id, role, content) ==
    [conversation_id |-> conversation_id, user_id |-> user_id,
     role |-> role, content |-> content]

\* .eq(field, value) on an ordered result: the matching rows, in order.
SelectMessages(conversation_id) ==
    SelectSeq(chat_messages, LAMBDA m : m.conversation_id = conversation_id)

HasConversation(conversation_id) ==
    \E i \in 1..Len(conversations) : conversations[i].id = conversation_id

ConversationOf(conversation_id) ==
    conversations[CHOOSE i \in 1..Len(conversations) :
                      conversations[i].id = conversation_id]

\* The `data` of a store response: a list of records, one record as a dict or
\* as an object, nothing, or something that is neither list nor mapping.
\* A record's id is optional: a response may come back without it.
Data(kind, rows) == [kind |-> kind, rows |-> rows]

Returned(row, withId) ==
    [id |-> IF withId THEN Some(row.id) ELSE None,
     user_id |-> row.user_id, title |-> row.title]

\* What insert(...).execute() on "conversations" answers, per outcome.
ConvInsertOutcomes ==
    {"raise", "list", "dict", "empty", "none", "list_noid", "dict_noid", "scalar"}

InsertData(outcome, row) ==
    CASE outcome = "list"      -> Data("list", <<Returned(row, TRUE)>>)
      [] outcome = "dict"      -> Data("dict", <<Returned(row, TRUE)>>)
      [] outcome = "empty"     -> Data("list", <<>>)
      [] outcome = "none"      -> Data("none", <<>>)
      [] outcome = "list_noid" -> Data("list", <<Returned(row, FALSE)>>)
      [] outcome = "dict_noid" -> Data("dict", <<Returned(row, FALSE)>>)
      [] outcome = "scalar"    -> Data("other", <<>>)

\* What select("*").eq("id", id).single().execute() answers: the row as a
\* dict or as an object when the store holds it, nothing when it does not.
ConvSelectOutcomes(conversation_id) ==
    IF HasConversation(conversation_id)
    THEN {"raise", "dict", "obj"}
    ELSE {"raise", "none"}

SelectData(outcome, conversation_id) ==
    IF outcome \in {"dict", "obj"}
    THEN Data(outcome, <<Returned(ConversationOf(conversation_id), TRUE)>>)
    ELSE Data("none", <<>>)

-----------------------------------------------------------------------------
(* Requests and responses.                                                 *)

Request(route, authorization, user_id, conversation_id, message, title) ==
    [route |-> route, authorization |-> authorization, user_id |-> user_id,
     conversation_id |-> conversation_id, message |-> message, title |-> title]

Response(status, detail, conversation_id, messages, reply) ==
    [status |-> status, detail |-> detail, conversation_id |-> conversation_id,
     messages |-> messages, reply |-> reply]

HTTPException(status, detail) == Response(status, detail, "", <<>>, "")

\* An exception no handler catches: the server answers 500.
Unhandled == HTTPException(500, "Internal Server Error")

NoRequest == Request("", None, "", "", "", None)

Init ==
    /\ conversations = <<>>
    /\ chat_messages = <<>>
    /\ req = NoRequest
    /\ resp = Response(0, "", "", <<>>, "")
    /\ calls = <<>>
    /\ parts = <<>>
    /\ prompt = ""
    /\ fetched = <<>>

\* A request other than /chat leaves chat's locals empty.
NoChatLocals == parts' = <<>> /\ prompt' = "" /\ fetched' = <<>>

-----------------------------------------------------------------------------
(* GET / and GET /health: no authentication, no collaborator.  The body of  *)
(* each ({"message": ...} and {"ok": True}) is kept in the response's      *)
(* detail field; the check mark that opens root's message is left out.     *)

root ==
    /\ req' = Request("/", None, "", "", "", None)
    /\ resp' = Response(200, "Gemini Chatbot Backend is running!", "", <<>>, "")
    /\ calls' = <<>>
    /\ NoChatLocals
    /\ UNCHANGED store

health ==
    /\ req' = Request("/health", None, "", "", "", None)
    /\ resp' = Response(200, "ok", "", <<>>, "")
    /\ calls' = <<>>
    /\ NoChatLocals
    /\ UNCHANGED store

-----------------------------------------------------------------------------
(* POST /start-conversation                                                *)

DefaultTitle == "New Conversation"

\* `title = payload.title or "New Conversation"`
TitleOrDefault(title) == IF Truthy(title) THEN title.val ELSE DefaultTitle

\* The extraction without its branch for a dict.
ExtractConvId_ListOnly(data) ==
    IF data.kind = "list" /\ data.rows # <<>> THEN data.rows[1].id ELSE None

\* `conv_data = getattr(conv, "data", None) or []` and the branches after it:
\* the id of the first record of a populated list, or of a dict; else None.
ExtractConvId(data) ==
    LET conv_data == IF data.kind = "none" THEN Data("list", <<>>) ELSE data
    IN  IF conv_data.kind = "list" /\ conv_data.rows # <<>>
        THEN conv_data.rows[1].id
        ELSE IF conv_data.kind = "dict" THEN conv_data.rows[1].id
        ELSE None

start_conversation(authorization, shape, title, outcome) ==
    LET auth == get_user_id(authorization, shape)
        row == ConvRow(IdOf(Len(conversations) + 1), auth.user_id,
                       TitleOrDefault(title))
        conv_id == ExtractConvId(InsertData(outcome, row))
    IN  /\ req' = Request("/start-conversation", authorization, auth.user_id,
                          "", "", title)
        /\ NoChatLocals
        /\ UNCHANGED chat_messages
        /\ IF auth.status # 200
           THEN /\ resp' = HTTPException(auth.status, auth.detail)
                /\ calls' = auth.calls
                /\ UNCHANGED conversations
           ELSE /\ calls' = auth.calls \o <<Call("conversations", "insert", outcome)>>
                /\ conversations' = IF outcome = "raise" THEN conversations
                                    ELSE Append(conversations, row)
                /\ resp' = IF outcome = "raise" THEN Unhandled
                           ELSE IF ~Truthy(conv_id)
                           THEN HTTPException(500, "Failed to create conversation")
                           ELSE Response(200, "", conv_id.val, <<>>, "")

-----------------------------------------------------------------------------
(* GET /history/{conversation_id}                                          *)

\* `not conv_data or (isinstance(conv_data, dict) and
\*                    conv_data.get("user_id") != user_id)`
NotFound(conv_data, user_id) ==
    \/ conv_data.kind = "none"
    \/ /\ conv_data.kind = "dict"
       /\ conv_data.rows[1].user_id # user_id

history(authorization, shape, conversation_id, convOutcome, msgsOutcome) ==
    LET auth == get_user_id(authorization, shape)
        conv_data == SelectData(convOutcome, conversation_id)
        convCall == Call("conversations", "select", convOutcome)
        msgsCall == Call("chat_messages", "select", msgsOutcome)
    IN  /\ req' = Request("/history", authorization, auth.user_id,
                          conversation_id, "", None)
        /\ NoChatLocals
        /\ UNCHANGED store
        /\ IF auth.status # 200
           THEN /\ resp' = HTTPException(auth.status, auth.detail)
                /\ calls' = auth.calls
           ELSE IF convOutcome = "raise"
           THEN /\ resp' = Unhandled
                /\ calls' = auth.calls \o <<convCall>>
           ELSE IF NotFound(conv_data, auth.user_id)
           THEN /\ resp' = HTTPException(404, "Conversation not found")
                /\ calls' = auth.calls \o <<convCall>>
           ELSE /\ calls' = auth.calls \o <<convCall, msgsCall>>
                /\ resp' = IF msgsOutcome = "raise" THEN Unhandled
                           ELSE Response(200, "", "",
                                         SelectMessages(conversation_id), "")

-----------------------------------------------------------------------------
(* POST /chat                                                              *)

FallbackReply == "Sorry, I couldn't generate a response right now."

\* select("role, content"): the two columns of a row; a column may be null.
Projected(m) == [role |-> Some(m.role), content |-> m.content]

Project(rows) == [i \in 1..Len(rows) |-> Projected(rows[i])]

\* .eq("conversation_id", id).order("created_at", desc=False).limit(20):
\* the rows of the conversation in ascending creation order, cut to the limit.
RecentHistory(conversation_id) ==
    FirstN(SelectMessages(conversation_id), HistoryLimit)

\* What the history select answers: the rows, the rows with the newest one's
\* role null, or an exception.
HistoryOutcomes(conversation_id) ==
    IF SelectMessages(conversation_id) = <<>>
    THEN {"ok", "raise"}
    ELSE {"ok", "raise", "null_role"}

HistoryData(outcome, conversation_id) ==
    LET rows == Project(RecentHistory(conversation_id))
    IN  IF outcome = "null_role"
        THEN [rows EXCEPT ![Len(rows)].role = None]
        ELSE rows

\* `history[:8]`, the oldest records instead of the newest.
Window_First(hist) == FirstN(hist, PromptWindow)

\* `history[-8:]`
Window(hist) == LastN(hist, PromptWindow)

\* `f"{role.upper()}: {content}"`
Rendered(h) == Upper(h.role.val) \o ": " \o h.content

RECURSIVE RenderAll(_)
RenderAll(hs) ==
    IF hs = <<>> THEN <<>> ELSE <<Rendered(Head(hs))>> \o RenderAll(Tail(hs))

\* The loop over history[-8:] and the final append.  None has no upper():
\* a null role inside the window raises AttributeError.
PartsRaise(hist) ==
    \E i \in 1..Len(Window(hist)) : ~Window(hist)[i].role.some

BuildParts(hist, user_msg) ==
    RenderAll(Window(hist)) \o <<"USER: " \o user_msg>>

BuildPrompt(list) == Join(list, "\n")

\* The model collaborator: constructing the model raises, generate_content
\* raises, or it returns a result whose text / content fields may be unset.
ModelOutcomes == {"raise_ctor", "raise_gen", "text", "content", "empty_text", "str"}

ModelRaises(outcome) == outcome \in {"raise_ctor", "raise_gen"}

ModelResult(outcome) ==
    CASE outcome = "text"       -> [text |-> Some("hi there"), content |-> None,
                                    repr |-> "response(hi)"]
      [] outcome = "content"    -> [text |-> None, content |-> Some("hello again"),
                                    repr |-> "response(hello)"]
      [] outcome = "empty_text" -> [text |-> Some(""), content |-> None,
                                    repr |-> "response()"]
      [] outcome = "str"        -> [text |-> None, content |-> None,
                                    repr |-> "response(raw)"]

\* `getattr(result, "text", None) or getattr(result, "content", None) or str(result)`
ExtractReply(result) ==
    IF Truthy(result.text) THEN result.text.val
    ELSE IF Truthy(result.content) THEN result.content.val
    ELSE result.repr

\* reply_text assigned only inside the try block: nothing on an exception.
ReplyText_Unset(outcome) ==
    IF ModelRaises(outcome) THEN "" ELSE ExtractReply(ModelResult(outcome))

\* reply_text after the try block around the model call.
ReplyText(outcome) ==
    IF ModelRaises(outcome) THEN FallbackReply
    ELSE ExtractReply(ModelResult(outcome))

ModelCalls(outcome) ==
    IF outcome = "raise_ctor"
    THEN <<Call("model", "GenerativeModel", "raise")>>
    ELSE <<Call("model", "GenerativeModel", "ok"),
           Call("model", "generate_content", outcome)>>

\* The batch insert with the assistant's row first.
TurnRows_Swapped(conversation_id, user_id, user_msg, reply_text) ==
    <<MsgRow(conversation_id, user_id, "assistant", reply_text),
      MsgRow(conversation_id, user_id, "user", user_msg)>>

\* The two rows of the batch insert, user then assistant.
TurnRows(conversation_id, user_id, user_msg, reply_text) ==
    <<MsgRow(conversation_id, user_id, "user", user_msg),
      MsgRow(conversation_id, user_id, "assistant", reply_text)>>

\* The response of the handler's last line, `return ChatResp(reply=reply_text)`.
ChatResp(reply_text) == Response(200, "", "", <<>>, reply_text)

\* The insert's exception left to propagate.
ChatResult_Propagate(reply_text, insertOutcome) ==
    IF insertOutcome = "raise" THEN Unhandled ELSE ChatResp(reply_text)

\* The insert's exception overwriting the reply.
ChatResult_Lost(reply_text, insertOutcome) ==
    ChatResp(IF insertOutcome = "raise" THEN FallbackReply ELSE reply_text)

\* The try block around the insert and the return after it: the exception
\* is passed over, the reply goes out either way.
ChatResult(reply_text, insertOutcome) == ChatResp(reply_text)

\* The table after the insert was attempted.
Persisted(rows, insertOutcome) ==
    IF insertOutcome = "ok" THEN chat_messages \o rows ELSE chat_messages

\* The store takes the batch or raises; a full store always raises.
InsertOutcomes(maxTurns) ==
    IF Len(chat_messages) + 2 <= 2 * maxTurns THEN {"ok", "raise"} ELSE {"raise"}

\* The same for "conversations": a full store answers no insert but by raising.
ConvOutcomes(outcomes, maxConvs) ==
    IF Len(conversations) < maxConvs THEN outcomes ELSE {"raise"}

chat(authorization, shape, conversation_id, message, histOutcome, modelOutcome, insertOutcome) ==
    LET auth == get_user_id(authorization, shape)
        hist == HistoryData(histOutcome, conversation_id)
        user_msg == Strip(message)
        list == BuildParts(hist, user_msg)
        reply_text == ReplyText(modelOutcome)
        histCall == Call("chat_messages", "select", histOutcome)
        insertCall == Call("chat_messages", "insert", insertOutcome)
    IN  /\ req' = Request("/chat", authorization, auth.user_id,
                          conversation_id, message, None)
        /\ UNCHANGED conversations
        /\ IF auth.status # 200
           THEN /\ resp' = HTTPException(auth.status, auth.detail)
                /\ calls' = auth.calls
                /\ NoChatLocals
                /\ UNCHANGED chat_messages
           ELSE IF histOutcome = "raise"
           THEN /\ resp' = Unhandled
                /\ calls' = auth.calls \o <<histCall>>
                /\ NoChatLocals
                /\ UNCHANGED chat_messages
           ELSE IF PartsRaise(hist)
           THEN /\ resp' = Unhandled
                /\ calls' = auth.calls \o <<histCall>>
                /\ fetched' = hist
                /\ parts' = <<>>
                /\ prompt' = ""
                /\ UNCHANGED chat_messages
           ELSE /\ fetched' = hist
                /\ parts' = list
                /\ prompt' = BuildPrompt(list)
                /\ calls' = auth.calls \o <<histCall>> \o ModelCalls(modelOutcome)
                                       \o <<insertCall>>
                /\ chat_messages' =
                       Persisted(TurnRows(conversation_id, auth.user_id,
                                          user_msg, reply_text), insertOutcome)
                /\ resp' = ChatResult(reply_text, insertOutcome)

-----------------------------------------------------------------------------
(* Requests.  Each action below is one request to a route; what the client *)
(* sends and how the collaborators answer is drawn from the given sets.    *)

\* The token of a header that carries one.
TokenOf(authorization) ==
    IF HasBearer(authorization) THEN AfterFirstSpace(authorization.val) ELSE ""

\* The shapes the identity collaborator may answer a header's token in.
ShapesFor(authorization, shapes) ==
    IF HasBearer(authorization)
    THEN IdentityShapes(TokenOf(authorization)) \cap shapes
    ELSE {"raise"}

StartOn(headers, shapes, titles, outcomes, maxConvs) ==
    \E a \in headers, title \in titles :
      \E shape \in ShapesFor(a, shapes),
         outcome \in ConvOutcomes(outcomes, maxConvs) :
        start_conversation(a, shape, title, outcome)

HistoryOn(headers, shapes, ids, convOutcomes, msgsOutcomes) ==
    \E a \in headers, c \in ids, msgsOutcome \in msgsOutcomes :
      \E shape \in ShapesFor(a, shapes),
         convOutcome \in ConvSelectOutcomes(c) \cap convOutcomes :
        history(a, shape, c, convOutcome, msgsOutcome)

ChatOn(headers, shapes, ids, messages, histOutcomes, modelOutcomes, maxTurns) ==
    \E a \in headers, c \in ids, m \in messages, modelOutcome \in modelOutcomes :
      \E shape \in ShapesFor(a, shapes),
         histOutcome \in HistoryOutcomes(c) \cap histOutcomes,
         insertOutcome \in InsertOutcomes(maxTurns) :
        chat(a, shape, c, m, histOutcome, modelOutcome, insertOutcome)

ConvIds == {IdOf(n) : n \in 1..MaxConvs}
AllConvSelects == {"raise", "dict", "obj", "none"}
AllHistories == {"ok", "raise", "null_role"}
Owner == Some("Bearer t1")

-----------------------------------------------------------------------------
(* Spec: two users and an anonymous client on every route.  A conversation *)
(* id may be named before the store assigns it (the conversation is then   *)
(* absent) and by a user who does not own it.                              *)

ClientHeaders == {None, Some("Bearer t1"), Some("bearer t2")}

StartConversation ==
    StartOn(ClientHeaders, {"obj"}, {None}, {"list", "raise"}, MaxConvs)

History ==
    HistoryOn(ClientHeaders, {"obj"}, ConvIds, AllConvSelects, {"ok"})

Chat ==
    ChatOn(ClientHeaders, {"obj"}, ConvIds, {" hello "}, {"ok", "raise"},
           {"text"}, MaxTurns)

Root == root

Health == health

Next == StartConversation \/ History \/ Chat \/ Root \/ Health

Spec == Init /\ [][Next]_vars

-----------------------------------------------------------------------------
(* SpecAuth: every header and every identity answer on the protected       *)
(* routes, over the store one user fills.                                  *)

Headers ==
    {None, Some(""), Some("Basic t1"), Some("Bearer"), Some("Bearert1"),
     Some("Bearer "), Some("Bearer t1"), Some("bearer t1"), Some("BEARER t9"),
     Some("bEaReR  t1")}

AuthStart == StartOn(Headers, AuthShapes, {None}, {"list"}, MaxConvs)

AuthHistory == HistoryOn(Headers, AuthShapes, {"c1"}, {"dict", "none"}, {"ok"})

AuthChat ==
    ChatOn(Headers, AuthShapes, {"c1"}, {"bye"}, {"ok"}, {"text"}, MaxTurns)

NextAuth == AuthStart \/ AuthHistory \/ AuthChat

SpecAuth == Init /\ [][NextAuth]_vars

-----------------------------------------------------------------------------
(* SpecChat: one user's /chat requests on one conversation, the history    *)
(* read, the model and the insert each answering or failing in every way.  *)

ChatStart == StartOn({Owner}, {"obj"}, {None}, {"list"}, 1)

ChatHistory == HistoryOn({Owner}, {"obj"}, {"c1"}, {"dict", "none"}, {"ok"})

ChatAny ==
    ChatOn({None, Owner}, {"obj"}, {"c1"}, {" hello "}, AllHistories,
           ModelOutcomes, MaxTurns)

NextChat == ChatStart \/ ChatHistory \/ ChatAny

SpecChat == Init /\ [][NextChat]_vars

-----------------------------------------------------------------------------
(* SpecTurns: two users' chat turns on one conversation, read back by its  *)
(* owner.                                                                  *)

TurnsStart == StartOn({Owner}, {"obj"}, {None}, {"list"}, 1)

TurnsHistory ==
    HistoryOn({Owner}, {"obj"}, {"c1"}, {"dict", "none"}, {"ok", "raise"})

TurnsChat ==
    ChatOn({Owner, Some("bearer t2")}, {"obj"}, {"c1"}, {" hello\n"},
           {"ok"}, {"text", "raise_gen"}, MaxTurns)

NextTurns == TurnsStart \/ TurnsHistory \/ TurnsChat

SpecTurns == Init /\ [][NextTurns]_vars

-----------------------------------------------------------------------------
(* SpecStart: /start-conversation with every title and every store answer. *)

Titles == {None, Some(""), Some("Work")}

StartAny ==
    StartOn({None, Owner, Some("bearer t2")}, {"obj"}, Titles,
            ConvInsertOutcomes, MaxConvs)

StartHistory ==
    HistoryOn({Owner}, {"obj"}, ConvIds, {"dict", "none"}, {"ok"})

StartChat ==
    ChatOn({Owner}, {"obj"}, ConvIds, {"bye"}, {"ok"}, {"text"}, 1)

NextStart == StartAny \/ StartHistory \/ StartChat

SpecStart == Init /\ [][NextStart]_vars

-----------------------------------------------------------------------------
(* SpecLong: one user's conversation growing past the history limit.  The  *)
(* message of each turn is the turn's number, so that rows differ.         *)

TurnMessage == "turn " \o Char("123456789abcdefghijklmn", Len(chat_messages) \div 2 + 1)

LongStart == StartOn({Owner}, {"obj"}, {None}, {"list"}, 1)

LongHistory ==
    HistoryOn({None, Owner}, {"obj"}, {"c1"}, AllConvSelects, {"ok", "raise"})

LongChat ==
    ChatOn({None, Owner}, {"obj"}, {"c1"}, {TurnMessage}, AllHistories,
           {"text"}, MaxLongTurns)

NextLong == LongStart \/ LongHistory \/ LongChat

SpecLong == Init /\ [][NextLong]_vars

-----------------------------------------------------------------------------
(* SpecPrompt: the prompt assembly of /chat as a function of the fetched   *)
(* history and the new message.                                            *)

PromptMessages == {"", " ", "hi", " hello ", "\ta b\n", "x\ny"}

\* A history of n records, oldest first: roles alternating from `first`,
\* each content naming the record's place.
HistoryOf(n, first, tag) ==
    [i \in 1..n |->
        [role |-> Some(IF (i % 2 = 1) = (first = "user") THEN "user" ELSE "assistant"),
         content |-> tag \o Char("123456789abcdefghijklmn", i)]]

InitPrompt ==
    /\ conversations = <<>>
    /\ chat_messages = <<>>
    /\ \E m \in PromptMessages :
         req = Request("/chat", Owner, "u1", "c1", m, None)
    /\ resp = Response(0, "", "", <<>>, "")
    /\ calls = <<>>
    /\ parts = <<>>
    /\ prompt = ""
    /\ \E n \in 0..MaxHist, first \in {"user", "assistant"}, tag \in {"m", "line\n"} :
         fetched = HistoryOf(n, first, tag)

Assemble ==
    /\ parts = <<>>
    /\ parts' = BuildParts(fetched, Strip(req.message))
    /\ prompt' = BuildPrompt(parts')
    /\ UNCHANGED <<conversations, chat_messages, req, resp, calls, fetched>>

NextPrompt == Assemble

SpecPrompt == InitPrompt /\ [][NextPrompt]_vars

-----------------------------------------------------------------------------
(* Properties.  They read the request, its response and its call log.      *)

Protected == {"/start-conversation", "/history", "/chat"}

Authenticated == req.user_id # ""

CallsTo(target) == {i \in 1..Len(calls) : calls[i].target = target}

\* The outcome of the request's call `op` on `target`; "" when it made none.
OutcomeOf(target, op) ==
    IF \E i \in 1..Len(calls) : calls[i].target = target /\ calls[i].op = op
    THEN calls[CHOOSE i \in 1..Len(calls) :
                   calls[i].target = target /\ calls[i].op = op].outcome
    ELSE ""

\* A header whose first seven characters are "bearer " in any letter case.
BearerScheme(a) ==
    /\ a.some
    /\ Len(a.val) >= 7
    /\ \A i \in 1..6 : Char(a.val, i) \in {Char("bearer", i), Char("BEARER", i)}
    /\ Char(a.val, 7) = " "

\* The identity collaborator raised, or answered without a user or an id.
IdentityRejected ==
    OutcomeOf("auth", "get_user") \in
        {"raise", "obj_none", "dict_empty", "obj_noid", "dict_noid"}

Unauthenticated ==
    /\ req.route \in Protected
    /\ ~BearerScheme(req.authorization) \/ IdentityRejected

\* C1: a request to a protected route whose Authorization header is absent,
\* is not a case-insensitive "Bearer " header, or carries a token the identity
\* collaborator rejects or raises on, is answered 401, makes no store call and
\* no model call, and leaves the store as it was.
C1_Unauthorized401 ==
    [][Unauthenticated' =>
          /\ resp'.status = 401
          /\ CallsTo("conversations")' = {}
          /\ CallsTo("chat_messages")' = {}
          /\ CallsTo("model")' = {}
          /\ UNCHANGED store]_vars

C1_Witness ==
    /\ req.route = "/chat"
    /\ req.authorization = Some("BEARER t9")
    /\ OutcomeOf("auth", "get_user") = "dict_empty"
    /\ resp.status = 401
    /\ chat_messages # <<>>

ModelRaised ==
    \/ OutcomeOf("model", "GenerativeModel") = "raise"
    \/ OutcomeOf("model", "generate_content") = "raise_gen"

\* C3: an authenticated /chat request in which the model collaborator raises,
\* on construction or on generate_content, is answered 200 with the reply
\* "Sorry, I couldn't generate a response right now."
C3_ModelFailureFallback ==
    (req.route = "/chat" /\ Authenticated /\ ModelRaised) =>
        /\ resp.status = 200
        /\ resp.reply = "Sorry, I couldn't generate a response right now."

C3_Witness ==
    /\ req.route = "/chat"
    /\ OutcomeOf("model", "GenerativeModel") = "raise"
    /\ resp.status = 200
    /\ resp.reply = "Sorry, I couldn't generate a response right now."

\* The reply the model call of the request yields: what the result's text
\* field holds, else its content field, else its string form; the fallback
\* when the call raised.
ReplyObtained ==
    LET outcome == OutcomeOf("model", "generate_content") IN
    CASE outcome = "text"       -> "hi there"
      [] outcome = "content"    -> "hello again"
      [] outcome = "empty_text" -> "response()"
      [] outcome = "str"        -> "response(raw)"
      [] OTHER -> "Sorry, I couldn't generate a response right now."

\* C4: once an authenticated /chat request has its reply text, real or
\* fallback, it attempts the batch insert, and whether the insert succeeds
\* or raises the response is 200 with exactly that reply text.
C4_PersistenceFailureSwallowed ==
    (req.route = "/chat" /\ Authenticated /\ CallsTo("model") # {}) =>
        /\ calls[Len(calls)].target = "chat_messages"
        /\ calls[Len(calls)].op = "insert"
        /\ resp.status = 200
        /\ resp.reply = ReplyObtained

C4_Witness ==
    /\ req.route = "/chat"
    /\ OutcomeOf("model", "generate_content") = "text"
    /\ OutcomeOf("chat_messages", "insert") = "raise"
    /\ resp.status = 200
    /\ resp.reply = "hi there"

\* C10 as claimed: every authenticated /chat request ends with 200 and a
\* reply, whichever collaborator call fails.
C10_AlwaysReplies ==
    (req.route = "/chat" /\ Authenticated) =>
        resp.status = 200 /\ resp.reply # ""

\* C10 as amended: an authenticated /chat request whose history read returns
\* rows that carry a role ends with 200 and a reply, whether the model call
\* or the insert fails; when the history read raises or returns a row whose
\* role is null in the prompt window it ends with 500, before any model call
\* and any insert.
C10_RepliesAfterHistoryRead ==
    (req.route = "/chat" /\ Authenticated) =>
        IF OutcomeOf("chat_messages", "select") = "ok"
        THEN resp.status = 200 /\ resp.reply # ""
        ELSE /\ resp.status = 500
             /\ CallsTo("model") = {}
             /\ OutcomeOf("chat_messages", "insert") = ""

C10_Witness ==
    /\ req.route = "/chat"
    /\ OutcomeOf("chat_messages", "select") = "ok"
    /\ OutcomeOf("model", "generate_content") = "raise_gen"
    /\ OutcomeOf("chat_messages", "insert") = "raise"
    /\ resp.status = 200
    /\ resp.reply # ""

Whitespace == {" ", "\t", "\n"}

\* s is m without its leading and trailing whitespace: a slice of m that
\* neither starts nor ends with whitespace, with only whitespace around it.
IsStripOf(s, m) ==
    \E i \in 1..(Len(m) + 1), j \in 0..Len(m) :
        /\ s = SubSeq(m, i, j)
        /\ \A k \in 1..(i - 1) : Char(m, k) \in Whitespace
        /\ \A k \in (j + 1)..Len(m) : Char(m, k) \in Whitespace
        /\ i <= j => Char(m, i) \notin Whitespace /\ Char(m, j) \notin Whitespace

RoleUpper(role) == IF role = "user" THEN "USER" ELSE "ASSISTANT"

\* The rows stored under the request's conversation, in creation order.
StoredUnderRequest ==
    SelectSeq(chat_messages, LAMBDA m : m.conversation_id = req.conversation_id)

\* A step changes chat_messages only by a /chat request appending its pair:
\* the stripped message as role user, then the returned reply as assistant.
TurnAppendsPair ==
    chat_messages' # chat_messages =>
        /\ req'.route = "/chat"
        /\ Authenticated'
        /\ resp'.status = 200
        /\ Len(chat_messages') = Len(chat_messages) + 2
        /\ SubSeq(chat_messages', 1, Len(chat_messages)) = chat_messages
        /\ LET u == chat_messages'[Len(chat_messages) + 1]
               a == chat_messages'[Len(chat_messages) + 2]
           IN  /\ u.role = "user" /\ a.role = "assistant"
               /\ IsStripOf(u.content, req'.message)
               /\ a.content = resp'.reply
               /\ u.conversation_id = req'.conversation_id
               /\ a.conversation_id = req'.conversation_id
               /\ u.user_id = req'.user_id
               /\ a.user_id = req'.user_id

PersistedTurnIsStored ==
    (req'.route = "/chat" /\ OutcomeOf("chat_messages", "insert")' = "ok") =>
        Len(chat_messages') = Len(chat_messages) + 2

HistoryReturnsPairs ==
    (req.route = "/history" /\ resp.status = 200) =>
        /\ resp.messages = StoredUnderRequest
        /\ Len(resp.messages) % 2 = 0
        /\ \A i \in 1..Len(resp.messages) :
              /\ resp.messages[i].role = IF i % 2 = 1 THEN "user" ELSE "assistant"
              /\ resp.messages[i].conversation_id = req.conversation_id
              /\ i % 2 = 0 => resp.messages[i].user_id = resp.messages[i - 1].user_id

\* C5: every persisted chat turn appends one pair to the store, a role=user
\* row holding the stripped request message followed by a role=assistant row
\* holding the reply returned to the caller, both under the request's
\* conversation id and user id; no row is changed or removed; and /history
\* returns the conversation's rows in creation order, pair after pair.
C5_HistoryIsTurnPairs ==
    /\ []HistoryReturnsPairs
    /\ [][TurnAppendsPair /\ PersistedTurnIsStored]_vars

C5_Witness ==
    /\ req.route = "/history"
    /\ resp.status = 200
    /\ Len(resp.messages) = 4
    /\ resp.messages[1].content = "hello"
    /\ resp.messages[2].content = "Sorry, I couldn't generate a response right now."
    /\ resp.messages[3].user_id = "u2"
    /\ resp.messages[4].content = "hi there"

\* Where the i-th entry starts in the newline-join of the entries.
RECURSIVE OffsetOf(_, _)
OffsetOf(list, i) ==
    IF i = 1 THEN 0 ELSE OffsetOf(list, i - 1) + Len(list[i - 1]) + 1

\* C6: the prompt is the newline-join of min(n, 8) + 1 entries: the last
\* min(n, 8) of the n fetched records in their order, each rendered as the
\* upper-cased role, ": " and the content, then "USER: " and the stripped
\* new message.
C6_PromptAssembly ==
    parts # <<>> =>
        LET n == Len(fetched)
            k == Min(n, 8)
            last == parts[Len(parts)]
        IN  /\ Len(parts) = k + 1
            /\ \A i \in 1..k :
                  parts[i] = RoleUpper(fetched[n - k + i].role.val) \o ": "
                                 \o fetched[n - k + i].content
            /\ SubSeq(last, 1, 6) = "USER: "
            /\ IsStripOf(SubSeq(last, 7, Len(last)), req.message)
            /\ Len(prompt) = OffsetOf(parts, k + 1) + Len(last)
            /\ \A i \in 1..(k + 1) :
                  /\ SubSeq(prompt, OffsetOf(parts, i) + 1,
                            OffsetOf(parts, i) + Len(parts[i])) = parts[i]
                  /\ i > 1 => Char(prompt, OffsetOf(parts, i)) = "\n"

C6_Witness ==
    /\ Len(fetched) = 10
    /\ Len(parts) = 9
    /\ parts[1] = "USER: m3"
    /\ parts[8] = "ASSISTANT: ma"
    /\ parts[9] = "USER: hello"
    /\ req.message = " hello "

\* The conversation row the store holds last.
LastConversation == conversations[Len(conversations)]

StartAnswered(title) ==
    \/ /\ resp.status = 200
       /\ OutcomeOf("conversations", "insert") \in {"list", "dict"}
       /\ resp.conversation_id # ""
       /\ conversations # <<>>
       /\ LastConversation.id = resp.conversation_id
       /\ LastConversation.user_id = req.user_id
       /\ LastConversation.title = title
       /\ \A i \in 1..(Len(conversations) - 1) :
             conversations[i].id # resp.conversation_id
    \/ /\ resp.status = 500
       /\ OutcomeOf("conversations", "insert") \notin {"list", "dict"}

\* C7 as claimed: an authenticated /start-conversation request is answered
\* 200 with the non-empty id the store gave the row just inserted for the
\* user, titled with the request title or "New Conversation" when the title
\* is absent, or 500 when the store's answer holds no id.
C7_StartReturnsStoredId ==
    (req.route = "/start-conversation" /\ Authenticated) =>
        StartAnswered(IF req.title.some THEN req.title.val ELSE "New Conversation")

\* C7 as amended: the same, the row titled "New Conversation" when the request
\* title is absent or the empty string.
C7_StartReturnsStoredIdOrDefaultTitle ==
    (req.route = "/start-conversation" /\ Authenticated) =>
        StartAnswered(IF req.title.some /\ req.title.val # ""
                      THEN req.title.val ELSE "New Conversation")

C7_Witness ==
    /\ req.route = "/start-conversation"
    /\ req.title = Some("")
    /\ OutcomeOf("conversations", "insert") = "dict"
    /\ resp.status = 200
    /\ resp.conversation_id = "c2"
    /\ LastConversation.title = "New Conversation"
    /\ LastConversation.user_id = "u2"

\* C2: an authenticated /history request for a conversation stored under
\* another user's id is answered 404 without message rows, whatever rows the
\* store holds under the conversation and whether it returns the conversation
\* record as a mapping or as an object.
C2_ForeignHistoryNotFound ==
    ( /\ req.route = "/history"
      /\ Authenticated
      /\ OutcomeOf("conversations", "select") \in {"dict", "obj"}
      /\ StoredUnderRequest # <<>>
      /\ ConversationOf(req.conversation_id).user_id # req.user_id ) =>
        resp.status = 404 /\ resp.messages = <<>>

\* C9: every stored message's conversation_id names a stored conversation
\* whose user_id is the message's user_id.
C9_MessagesUnderOwnedConversation ==
    \A i \in 1..Len(chat_messages) :
        /\ HasConversation(chat_messages[i].conversation_id)
        /\ ConversationOf(chat_messages[i].conversation_id).user_id
               = chat_messages[i].user_id

\* The conversation's rows as they were when the request read them.
StoredBeforeRequest ==
    IF OutcomeOf("chat_messages", "insert") = "ok"
    THEN SubSeq(StoredUnderRequest, 1, Len(StoredUnderRequest) - 2)
    ELSE StoredUnderRequest

\* C8: with k messages stored under the conversation, /chat fetches the
\* min(k, 20) most recent of them, oldest first, and the prompt's history
\* lines are the min(k, 8) most recent.
C8_PromptHoldsMostRecent ==
    (req.route = "/chat" /\ resp.status = 200) =>
        LET before == StoredBeforeRequest
            k == Len(before)
            f == Min(k, 20)
            w == Min(k, 8)
        IN  /\ Len(fetched) = f
            /\ \A i \in 1..f :
                  /\ fetched[i].role = Some(before[k - f + i].role)
                  /\ fetched[i].content = before[k - f + i].content
            /\ Len(parts) = w + 1
            /\ \A i \in 1..w :
                  parts[i] = RoleUpper(before[k - w + i].role) \o ": "
                                 \o before[k - w + i].content

====
